---- MODULE Spec2Model ----
(***************************************************************************)
(* Model of src/pushTriggerCodeToAtlas.py: a deployment trigger that, when *)
(* the watched file is part of the last commit, allowlists the runner's IP *)
(* on Atlas, fetches a bearer token and PUTs the file as the new source of *)
(* an Atlas Function.  The remote services, git and the file system are    *)
(* the environment: each of their answers is a nondeterministic input.     *)
(***************************************************************************)
EXTENDS Integers, Sequences, FiniteSets, TLC

VARIABLES
    pc,                    \* position of the process (stage of the run)
    run,                   \* number of the current invocation
    config,                \* the five ATLAS_* module globals
    git_ok,                \* did "git diff" exit with status 0
    git_stdout,            \* lines printed by "git diff --name-only"
    changed_files,         \* result of get_changed_files()
    ip_resp,               \* outcome of the IP-echo GET
    runner_ip,             \* text of the IP-echo response
    allow_req,             \* payload of the access-list POST
    allow_resp,            \* outcome of the access-list POST
    token_resp,            \* outcome of the login POST
    bearer_token,          \* value returned by get_bearer_token()
    read_result,           \* outcome of open()/read() of the source file
    function_source_code,  \* content read from the source file
    update_resp,           \* outcome of the function PUT
    update_req,            \* payload and credential of the function PUT
    slept,                 \* seconds spent in time.sleep during this run
    log,                   \* external interactions of this run, in order
    stages,                \* stages this run has entered
    accessList,            \* remote access list: addresses posted with success
    prev                   \* summary of the previous invocation

vars == <<pc, run, config, git_ok, git_stdout, changed_files, ip_resp,
          runner_ip, allow_req, allow_resp,
          token_resp, bearer_token, read_result, function_source_code,
          update_resp, update_req, slept, log, stages, accessList, prev>>

----------------------------------------------------------------------------
(* Bounds *)
MaxRuns == 2
MaxLines == 2
MaxBodyLen == 2

----------------------------------------------------------------------------
(* Program constants and input domains *)
None == "None"
FUNCTION_SOURCE_FILE == "test.js"
FILES_TO_WATCH == {FUNCTION_SOURCE_FILE}
SETTLE_SECONDS == 15
DUPLICATE_STATUS == 400

ConfigKeys == {"ATLAS_GROUP_ID", "ATLAS_PUBLIC_KEY", "ATLAS_PRIVATE_KEY",
               "ATLAS_APP_ID", "ATLAS_FUNCTION_ID"}
ConfigValues == {None, "", "v"}

Paths == {"test.js", "README.md"}
IpChars == {"7", " "}
HttpStatuses == {200, 304, 400, 401, 500}
IpStatuses == {200, 500}
Tokens == {"", "tokA", "tokB"}
Sources == {"exports = 1", "exports = 2"}

NoAllowReq == [ipAddress |-> <<>>, comment |-> None, deleteAfterDate |-> None]
NoResp == [kind |-> "none", status |-> 0, marker |-> FALSE]
TransportError == [kind |-> "transport", status |-> 0, marker |-> FALSE]
AllowResponses ==
    [kind : {"http"}, status : HttpStatuses, marker : BOOLEAN]

NoTokenResp == [kind |-> "none", status |-> 0, json |-> FALSE,
                has_token |-> FALSE, access_token |-> None]
TokenTransportError == [kind |-> "transport", status |-> 0, json |-> FALSE,
                        has_token |-> FALSE, access_token |-> None]
TokenResponses ==
    { r \in [kind : {"http"}, status : HttpStatuses, json : BOOLEAN,
             has_token : BOOLEAN, access_token : Tokens \cup {None}] :
        /\ (r.has_token => r.json)
        /\ (r.has_token <=> r.access_token # None) }

SeqsUpTo(S, n) == UNION { [1..k -> S] : k \in 0..n }
Range(s) == { s[i] : i \in 1..Len(s) }
Disjoint(A, B) == A \cap B = {}

\* "git diff --name-only" prints each differing path once.
GitStdouts ==
    { s \in SeqsUpTo(Paths, MaxLines) :
        \A i, j \in 1..Len(s) : i # j => s[i] # s[j] }
IpBodies == SeqsUpTo(IpChars, MaxBodyLen)

NoPrev == [pc |-> "none", ip |-> <<>>, changed |-> {}]

Terminals == {"NoOp", "Done", "Failed", "Crashed"}
Terminal == pc \in Terminals

----------------------------------------------------------------------------
(* Pure functions of the program *)

\* str.strip().split('\n') followed by set(): an empty output yields [''].
SplitLines(stdout) == IF stdout = <<>> THEN {""} ELSE Range(stdout)

\* Variant: a failed comparison is not caught and the output is parsed anyway.
get_changed_files_FailOpen(ok, stdout) == SplitLines(stdout)

\* get_changed_files: exit status 0 gives the set of lines, else set().
get_changed_files(ok, stdout) == IF ok THEN SplitLines(stdout) ELSE {}

\* Variant: the "not" of the watch-list test is missing.
ShouldTrigger_Inverted(changed) == Disjoint(FILES_TO_WATCH, changed)

\* Variant: the deployment is attempted on every commit.
ShouldTrigger_Always(changed) == TRUE

\* main: "if not FILES_TO_WATCH.isdisjoint(changed_files)".
ShouldTrigger(changed) == ~Disjoint(FILES_TO_WATCH, changed)

\* Python truthiness of an optional string.
Truthy(v) == v \notin {None, ""}

\* Variant: only the three original globals are checked.
ConfigComplete_ThreeKeys(cfg) ==
    \A k \in {"ATLAS_GROUP_ID", "ATLAS_PUBLIC_KEY", "ATLAS_PRIVATE_KEY"} :
        Truthy(cfg[k])

\* call_atlas_api: "if not all([...])" over the five globals.
ConfigComplete(cfg) == \A k \in ConfigKeys : Truthy(cfg[k])

\* requests.Response.raise_for_status: raises HTTPError for 400..599.
raise_for_status(status) == status >= 400 /\ status < 600

\* Variant: the marker is accepted whatever the status.
AllowlistClass_AnyStatus(resp) ==
    IF resp.kind = "transport" THEN "uncaught"
    ELSE IF ~raise_for_status(resp.status) THEN "ok"
    ELSE IF resp.marker THEN "exists"
    ELSE "fatal"

\* Variant: every HTTP error of the access-list POST is fatal.
AllowlistClass_NoMasking(resp) ==
    IF resp.kind = "transport" THEN "uncaught"
    ELSE IF ~raise_for_status(resp.status) THEN "ok"
    ELSE "fatal"

\* Variant: a transport failure of the access-list POST is swallowed.
AllowlistClass_SwallowTransport(resp) ==
    IF resp.kind = "transport" THEN "exists"
    ELSE IF ~raise_for_status(resp.status) THEN "ok"
    ELSE IF resp.status = DUPLICATE_STATUS /\ resp.marker THEN "exists"
    ELSE "fatal"

\* Classification of the access-list POST outcome.
AllowlistClass(resp) ==
    IF resp.kind = "transport" THEN "uncaught"
    ELSE IF ~raise_for_status(resp.status) THEN "ok"
    ELSE IF resp.status = DUPLICATE_STATUS /\ resp.marker THEN "exists"
    ELSE "fatal"

\* Variant: the sleep after a successful POST is missing.
AllowlistNext_NoSleep(class) ==
    CASE class = "ok" -> "Authenticating"
      [] class = "exists" -> "Authenticating"
      [] class = "fatal" -> "Failed"
      [] OTHER -> "Crashed"

\* Body of the access-list POST: one entry for the runner's address.
access_list_payload(ip) ==
    [ipAddress |-> ip, comment |-> "Allowing CI/CD Runner for deployment",
     deleteAfterDate |-> "P1H"]

\* Variant: the POST replaces the access list by the posted entry.
AccessListAfter_Replace(list, ip, resp) ==
    IF resp.kind = "http" /\ resp.status \in 200..299
    THEN {ip}
    ELSE list

\* Remote access list after the POST: a created entry is added.
AccessListAfter(list, ip, resp) ==
    IF resp.kind = "http" /\ resp.status \in 200..299
    THEN list \cup {ip}
    ELSE list

\* Variant: a fatal answer of the access-list POST is tried again.
AllowlistNext_Retry(class) ==
    CASE class = "ok" -> "Settling"
      [] class = "exists" -> "Authenticating"
      [] class = "fatal" -> "Allowlisting"
      [] OTHER -> "Crashed"

\* Stage that follows the access-list POST.
AllowlistNext(class) ==
    CASE class = "ok" -> "Settling"
      [] class = "exists" -> "Authenticating"
      [] class = "fatal" -> "Failed"
      [] OTHER -> "Crashed"

\* get_bearer_token: the token, or None on any HTTP error or exception.
get_bearer_token(resp) ==
    IF resp.kind = "transport" THEN None
    ELSE IF raise_for_status(resp.status) THEN None
    ELSE IF ~resp.json THEN None
    ELSE IF ~resp.has_token THEN None
    ELSE resp.access_token

\* Variant: the token is tested with "is None" instead of truthiness.
TokenNext_IsNone(token) == IF token # None THEN "ReadingSource" ELSE "Failed"

\* Variant: the result of get_bearer_token is not checked.
TokenNext_Unchecked(token) == "ReadingSource"

\* call_atlas_api: "if not bearer_token: ... return".
TokenNext(token) == IF Truthy(token) THEN "ReadingSource" ELSE "Failed"

\* Variant: a failed read does not return.
ReadNext_NoReturn(result) == "Updating"

\* Stage that follows the read of the source file.
ReadNext(result) == IF result = "ok" THEN "Updating" ELSE "Failed"

\* Variant: the file name is sent instead of the file content.
function_request_FileName(src, token) ==
    [source |-> FUNCTION_SOURCE_FILE, token |-> token]

\* Payload and Authorization credential of the function PUT.
function_request(src, token) == [source |-> src, token |-> token]

\* Variant: the outcome of the PUT is read with the test inverted.
UpdateNext_Inverted(resp) ==
    IF resp.kind = "transport" THEN "Failed"
    ELSE IF raise_for_status(resp.status) THEN "Done"
    ELSE "Failed"

\* Stage that follows the function PUT.
UpdateNext(resp) ==
    IF resp.kind = "transport" THEN "Failed"
    ELSE IF raise_for_status(resp.status) THEN "Failed"
    ELSE "Done"

Enter(stage) == stages' = stages \cup {stage}

----------------------------------------------------------------------------
(* State machine *)

UnsetConfig == [k \in ConfigKeys |-> None]

Init ==
    /\ pc = "Idle"
    /\ run = 1
    /\ config = UnsetConfig
    /\ git_ok = FALSE
    /\ git_stdout = <<>>
    /\ changed_files = {}
    /\ ip_resp = NoResp
    /\ runner_ip = <<>>
    /\ allow_req = NoAllowReq
    /\ allow_resp = NoResp
    /\ token_resp = NoTokenResp
    /\ bearer_token = None
    /\ read_result = "none"
    /\ function_source_code = None
    /\ update_resp = NoResp
    /\ update_req = [source |-> None, token |-> None]
    /\ slept = 0
    /\ log = <<>>
    /\ stages = {"Idle"}
    /\ accessList = {}
    /\ prev = NoPrev

\* Module import: the five globals are read from the environment.
Start ==
    /\ pc = "Idle"
    /\ \E cfg \in [ConfigKeys -> ConfigValues] : config' = cfg
    /\ pc' = "DetectingChanges"
    /\ Enter("DetectingChanges")
    /\ UNCHANGED <<run, git_ok, git_stdout, changed_files, ip_resp,
                   runner_ip, allow_req, allow_resp,
                   token_resp, bearer_token, read_result,
                   function_source_code, update_resp, update_req, slept,
                   log, accessList, prev>>

\* main: get_changed_files() and the watch-list test.
DetectChanges ==
    /\ pc = "DetectingChanges"
    /\ \E ok \in BOOLEAN, stdout \in GitStdouts :
        /\ git_ok' = ok
        /\ git_stdout' = IF ok THEN stdout ELSE <<>>
        /\ changed_files' = get_changed_files(ok, stdout)
    /\ log' = Append(log, "git")
    /\ pc' = IF ShouldTrigger(changed_files') THEN "Preflight" ELSE "NoOp"
    /\ Enter(pc')
    /\ UNCHANGED <<run, config, ip_resp, runner_ip, allow_req, allow_resp,
                   token_resp,
                   bearer_token, read_result, function_source_code,
                   update_resp, update_req, slept, accessList, prev>>

\* call_atlas_api: the check of the five globals.
CheckConfig ==
    /\ pc = "Preflight"
    /\ pc' = IF ConfigComplete(config) THEN "Resolving" ELSE "Failed"
    /\ Enter(pc')
    /\ UNCHANGED <<run, config, git_ok, git_stdout, changed_files, ip_resp,
                   runner_ip,
                   allow_req, allow_resp,
                   token_resp, bearer_token, read_result,
                   function_source_code, update_resp, update_req, slept,
                   log, accessList, prev>>

\* Step 1: GET of the IP-echo service; only a RequestException is an error.
ResolveIP ==
    /\ pc = "Resolving"
    /\ log' = Append(log, "ip_echo")
    /\ \/ /\ ip_resp' = TransportError
          /\ pc' = "Failed"
          /\ UNCHANGED runner_ip
       \/ \E status \in IpStatuses, body \in IpBodies :
            /\ ip_resp' = [kind |-> "http", status |-> status,
                           marker |-> FALSE]
            /\ runner_ip' = body
            /\ pc' = "Allowlisting"
    /\ Enter(pc')
    /\ UNCHANGED <<run, config, git_ok, git_stdout, changed_files,
                   allow_req, allow_resp,
                   token_resp, bearer_token, read_result,
                   function_source_code, update_resp, update_req, slept,
                   accessList, prev>>

\* Step 2: POST of the access-list entry and the handling of its outcome.
Allowlist ==
    /\ pc = "Allowlisting"
    /\ log' = Append(log, "allowlist")
    /\ allow_req' = access_list_payload(runner_ip)
    /\ \E resp \in AllowResponses \cup {TransportError} :
        /\ allow_resp' = resp
        /\ pc' = AllowlistNext(AllowlistClass(resp))
        /\ accessList' =
                AccessListAfter(accessList, allow_req'.ipAddress, resp)
    /\ Enter(pc')
    /\ UNCHANGED <<run, config, git_ok, git_stdout, changed_files, ip_resp,
                   runner_ip,
                   token_resp, bearer_token, read_result,
                   function_source_code, update_resp, update_req, slept,
                   prev>>

\* time.sleep(15) after a successful access-list POST.
Settle ==
    /\ pc = "Settling"
    /\ slept' = slept + SETTLE_SECONDS
    /\ log' = Append(log, "sleep")
    /\ pc' = "Authenticating"
    /\ Enter(pc')
    /\ UNCHANGED <<run, config, git_ok, git_stdout, changed_files, ip_resp,
                   runner_ip,
                   allow_req, allow_resp,
                   token_resp, bearer_token, read_result,
                   function_source_code, update_resp, update_req,
                   accessList, prev>>

\* Step 3: get_bearer_token() and the check of its result.
Authenticate ==
    /\ pc = "Authenticating"
    /\ log' = Append(log, "token")
    /\ \E resp \in TokenResponses \cup {TokenTransportError} :
        /\ token_resp' = resp
        /\ bearer_token' = get_bearer_token(resp)
    /\ pc' = TokenNext(bearer_token')
    /\ Enter(pc')
    /\ UNCHANGED <<run, config, git_ok, git_stdout, changed_files, ip_resp,
                   runner_ip,
                   allow_req, allow_resp,
                   read_result, function_source_code, update_resp,
                   update_req, slept, accessList, prev>>

\* Step 4: read of the source file.
ReadSource ==
    /\ pc = "ReadingSource"
    /\ log' = Append(log, "read")
    /\ \/ \E src \in Sources :
            /\ read_result' = "ok"
            /\ function_source_code' = src
       \/ /\ read_result' \in {"FileNotFoundError", "Exception"}
          /\ UNCHANGED function_source_code
    /\ pc' = ReadNext(read_result')
    /\ Enter(pc')
    /\ UNCHANGED <<run, config, git_ok, git_stdout, changed_files, ip_resp,
                   runner_ip,
                   allow_req, allow_resp,
                   token_resp, bearer_token, update_resp, update_req, slept,
                   accessList, prev>>

\* Step 5: PUT of the function source and the report of its outcome.
Update ==
    /\ pc = "Updating"
    /\ log' = Append(log, "update")
    /\ update_req' = function_request(function_source_code, bearer_token)
    /\ \E resp \in [kind : {"http"}, status : HttpStatuses, marker : {FALSE}]
                     \cup {TransportError} :
        /\ update_resp' = resp
        /\ pc' = UpdateNext(resp)
    /\ Enter(pc')
    /\ UNCHANGED <<run, config, git_ok, git_stdout, changed_files, ip_resp,
                   runner_ip,
                   allow_req, allow_resp,
                   token_resp, bearer_token, read_result,
                   function_source_code, slept, accessList, prev>>

\* A new invocation of the script: no process state survives, the remote
\* access list does.
NewRun ==
    /\ Terminal
    /\ run < MaxRuns
    /\ run' = run + 1
    /\ prev' = [pc |-> pc, ip |-> runner_ip, changed |-> changed_files]
    /\ pc' = "Idle"
    /\ config' = UnsetConfig
    /\ git_ok' = FALSE
    /\ git_stdout' = <<>>
    /\ changed_files' = {}
    /\ ip_resp' = NoResp
    /\ runner_ip' = <<>>
    /\ allow_req' = NoAllowReq
    /\ allow_resp' = NoResp
    /\ token_resp' = NoTokenResp
    /\ bearer_token' = None
    /\ read_result' = "none"
    /\ function_source_code' = None
    /\ update_resp' = NoResp
    /\ update_req' = [source |-> None, token |-> None]
    /\ slept' = 0
    /\ log' = <<>>
    /\ stages' = {"Idle"}
    /\ UNCHANGED accessList

Next ==
    \/ Start
    \/ DetectChanges
    \/ CheckConfig
    \/ ResolveIP
    \/ Allowlist
    \/ Settle
    \/ Authenticate
    \/ ReadSource
    \/ Update
    \/ NewRun

Spec == Init /\ [][Next]_vars

TypeOK ==
    /\ pc \in Terminals \cup {"Idle", "DetectingChanges", "Preflight",
                              "Resolving", "Allowlisting", "Settling",
                              "Authenticating", "ReadingSource", "Updating"}
    /\ run \in 1..MaxRuns
    /\ slept \in {0, SETTLE_SECONDS}

----------------------------------------------------------------------------
(* Vocabulary of the properties, stated on the recorded inputs and effects *)

Count(e) == Cardinality({ i \in 1..Len(log) : log[i] = e })
Issued(e) == Count(e) > 0
Before(a, b) ==
    \E i, j \in 1..Len(log) : i < j /\ log[i] = a /\ log[j] = b
HttpEvents == {"ip_echo", "allowlist", "token", "update"}
NoHttp == \A i \in 1..Len(log) : log[i] \notin HttpEvents
Entered(stage) == stage \in stages
Detected == Issued("git")

WatchedChanged == FILES_TO_WATCH \cap changed_files # {}
AllConfigPresent == \A k \in ConfigKeys : config[k] # None /\ config[k] # ""
Is2xx(resp) == resp.kind = "http" /\ resp.status \in 200..299
IsError(resp) == resp.kind = "http" /\ resp.status \in 400..599
IsDuplicate(resp) ==
    resp.kind = "http" /\ resp.status = 400 /\ resp.marker
TokenGranted ==
    /\ token_resp.kind = "http"
    /\ token_resp.status \notin 400..599
    /\ token_resp.json
    /\ token_resp.has_token
    /\ token_resp.access_token \notin {None, ""}
FullLog ==
    <<"git", "ip_echo", "allowlist", "sleep", "token", "read", "update">>

----------------------------------------------------------------------------
\* C1 (as stated): a finished run is in NoOp iff the change set and the
\* watch list are disjoint, and has entered Resolving iff they intersect.
C1_AsStated ==
    Terminal =>
        /\ (pc = "NoOp" <=> ~WatchedChanged)
        /\ (Entered("Resolving") <=> WatchedChanged)

\* C1 (amended): a finished run is in NoOp iff the change set and the watch
\* list are disjoint; it has entered call_atlas_api iff they intersect, and
\* has entered Resolving iff they intersect and the five configuration
\* values are all present; otherwise it failed on the configuration check.
C1_TriggerIffIntersect ==
    /\ (Entered("NoOp") => pc = "NoOp" /\ ~WatchedChanged)
    /\ (Entered("Preflight") => WatchedChanged)
    /\ (Entered("Resolving") => WatchedChanged /\ AllConfigPresent)
    /\ Terminal =>
            /\ (pc = "NoOp" <=> ~WatchedChanged)
            /\ (Entered("Preflight") <=> WatchedChanged)
            /\ (Entered("Resolving") <=> WatchedChanged /\ AllConfigPresent)
            /\ (WatchedChanged /\ ~AllConfigPresent =>
                    pc = "Failed" /\ NoHttp)

C1_Witness ==
    /\ pc = "Failed"
    /\ changed_files = {"test.js", "README.md"}
    /\ config["ATLAS_FUNCTION_ID"] = None
    /\ ~Entered("Resolving")

\* C2: a run that ends in NoOp, which is every finished run whose change set
\* misses the watch list, has made no HTTP request, has not slept and has
\* not read the source file: git is the only thing it called.
C2_NoOpHasNoSideEffects ==
    (pc = "NoOp" \/ (Terminal /\ ~WatchedChanged)) =>
        /\ log = <<"git">>
        /\ NoHttp
        /\ ~Issued("read")
        /\ read_result = "none"
        /\ slept = 0
        /\ ip_resp = NoResp /\ allow_resp = NoResp
        /\ token_resp = NoTokenResp /\ update_resp = NoResp

C2_Witness ==
    /\ pc = "NoOp"
    /\ git_ok
    /\ changed_files = {"README.md"}
    /\ log = <<"git">>

\* C3: once a failed history comparison has been handled, the change set is
\* empty, the run is in NoOp (it did not crash) and no IP-echo, allowlist,
\* token or update request has been made.
C3_FailedDiffIsNoChange ==
    (Detected /\ ~git_ok) =>
        /\ changed_files = {}
        /\ pc = "NoOp"
        /\ NoHttp
        /\ log = <<"git">>

C3_Witness ==
    /\ Detected
    /\ ~git_ok
    /\ changed_files = {}
    /\ pc = "NoOp"

\* C4: after the allowlist response, a 2xx status and a 400 status with the
\* marker let the run go on to the token request; any other 4xx/5xx status,
\* with or without the marker, leaves the run in Failed with no token and no
\* update request.
C4_AllowlistClassification ==
    /\ (Is2xx(allow_resp) \/ IsDuplicate(allow_resp)) =>
            /\ pc # "Allowlisting"
            /\ pc = "Settling" \/ Entered("Authenticating")
            /\ pc \notin {"Settling", "Authenticating"} => Count("token") = 1
    /\ (IsError(allow_resp) /\ ~IsDuplicate(allow_resp)) =>
            /\ pc = "Failed"
            /\ ~Entered("Settling") /\ ~Entered("Authenticating")
            /\ ~Issued("token") /\ ~Issued("update")

C4_Witness ==
    /\ pc = "Failed"
    /\ allow_resp.kind = "http"
    /\ allow_resp.status = 500
    /\ allow_resp.marker
    /\ ~Issued("token")

\* C5 (as stated): every run that has issued a token request went through
\* Settling and slept 15 seconds between the allowlist response and the
\* token request.
C5_AsStated ==
    Issued("token") =>
        /\ Entered("Settling")
        /\ slept = SETTLE_SECONDS
        /\ Before("allowlist", "sleep") /\ Before("sleep", "token")

\* C5 (amended): a run that has issued a token request after a 2xx allowlist
\* response went through Settling and slept 15 seconds between the allowlist
\* response and the token request; a run whose allowlist response was
\* classified as "already exists" issued the token request without entering
\* Settling and without sleeping.
C5_SettleOnlyAfterSuccess ==
    Issued("token") =>
        /\ Is2xx(allow_resp) =>
                /\ Entered("Settling")
                /\ slept = SETTLE_SECONDS
                /\ Count("sleep") = 1
                /\ Before("allowlist", "sleep") /\ Before("sleep", "token")
        /\ IsDuplicate(allow_resp) =>
                /\ ~Entered("Settling")
                /\ slept = 0
                /\ ~Issued("sleep")
                /\ Before("allowlist", "token")

C5_Witness ==
    /\ Issued("token")
    /\ IsDuplicate(allow_resp)
    /\ slept = 0
    /\ pc = "Done"

\* C6: the update stage is entered, and the update request issued, only
\* after a token request of the same run that returned a non-empty token;
\* a token request that yields no token leaves the run in Failed with no
\* update request.
C6_NoUpdateWithoutToken ==
    /\ (Entered("Updating") \/ Issued("update")) =>
            /\ TokenGranted
            /\ Count("token") = 1
            /\ bearer_token = token_resp.access_token
    /\ Issued("update") => Before("token", "update")
    /\ (Issued("token") /\ ~TokenGranted) =>
            /\ pc = "Failed"
            /\ ~Issued("update") /\ ~Issued("read")
            /\ update_resp = NoResp

C6_Witness ==
    /\ pc = "Failed"
    /\ token_resp.kind = "http"
    /\ token_resp.status = 401
    /\ bearer_token = None
    /\ ~Issued("update")

\* C7: when the read of the source file fails, with FileNotFoundError or any
\* other exception, the run is in Failed and no update request is made.
C7_MissingFileBlocksUpdate ==
    (Issued("read") /\ read_result # "ok") =>
        /\ pc = "Failed"
        /\ ~Entered("Updating")
        /\ ~Issued("update")
        /\ update_resp = NoResp

C7_Witness ==
    /\ Issued("read")
    /\ read_result = "FileNotFoundError"
    /\ pc = "Failed"
    /\ ~Issued("update")

NoCallFailedAfterAllowlist ==
    /\ token_resp = NoTokenResp \/ (Is2xx(token_resp) /\ TokenGranted)
    /\ read_result \in {"none", "ok"}
    /\ update_resp = NoResp \/ Is2xx(update_resp)

\* C8: a finished run in which the watched file changed, the configuration
\* is complete and no call failed is in Done, and its interactions were, in
\* this order and once each: IP echo, allowlist, the 15-second sleep, token,
\* file read, update.
C8_HappyPathOrder ==
    ( /\ Terminal
      /\ WatchedChanged
      /\ AllConfigPresent
      /\ Is2xx(ip_resp)
      /\ allow_resp = NoResp \/ Is2xx(allow_resp)
      /\ NoCallFailedAfterAllowlist ) =>
        /\ pc = "Done"
        /\ log = FullLog
        /\ Count("allowlist") = 1 /\ Count("token") = 1
        /\ Count("update") = 1
        /\ slept = SETTLE_SECONDS
        /\ Is2xx(allow_resp) /\ Is2xx(update_resp)

C8_Witness ==
    /\ pc = "Done"
    /\ changed_files = {"test.js", "README.md"}
    /\ Is2xx(allow_resp)
    /\ Is2xx(token_resp)
    /\ Is2xx(update_resp)
    /\ log = FullLog

\* C9: a second run that follows a run ended in Done, with the same runner
\* address and the same change set, whose address is still on the access
\* list so that its allowlist call is answered 400 "already exists", and
\* whose other calls do not fail, ends in Done as well.
C9_SecondRunAlsoDone ==
    ( /\ Terminal
      /\ run >= 2
      /\ prev.pc = "Done"
      /\ prev.ip = runner_ip
      /\ prev.changed = changed_files
      /\ WatchedChanged
      /\ AllConfigPresent
      /\ Is2xx(ip_resp)
      /\ runner_ip \in accessList
      /\ IsDuplicate(allow_resp)
      /\ NoCallFailedAfterAllowlist ) =>
        /\ pc = "Done"
        /\ log = <<"git", "ip_echo", "allowlist", "token", "read", "update">>
        /\ Is2xx(update_resp)

C9_Witness ==
    /\ run = 2
    /\ prev.pc = "Done"
    /\ prev.ip = runner_ip
    /\ runner_ip = <<"7">>
    /\ runner_ip \in accessList
    /\ IsDuplicate(allow_resp)
    /\ pc = "Done"

----------------------------------------------------------------------------
(* Further vocabulary *)

\* Text with its leading and trailing whitespace removed.
RECURSIVE TrimLeft(_)
TrimLeft(t) ==
    IF t # <<>> /\ Head(t) = " " THEN TrimLeft(Tail(t)) ELSE t
RECURSIVE TrimRight(_)
TrimRight(t) ==
    IF t # <<>> /\ t[Len(t)] = " "
    THEN TrimRight(SubSeq(t, 1, Len(t) - 1))
    ELSE t
Trim(t) == TrimRight(TrimLeft(t))

AtMostOnceEach == \A e \in HttpEvents : Count(e) <= 1

\* A step of the current run, as opposed to a new invocation.
RunStep ==
    \/ Start \/ DetectChanges \/ CheckConfig \/ ResolveIP \/ Allowlist
    \/ Settle \/ Authenticate \/ ReadSource \/ Update

----------------------------------------------------------------------------
\* C11: when the IP-echo request fails, with a transport error or with a
\* status outside 2xx, the run is in Failed and no allowlist, token or
\* update request has been made.
C11_IpEchoFailureIsFatal ==
    (ip_resp.kind = "transport" \/ (ip_resp.kind = "http" /\ ~Is2xx(ip_resp)))
        =>
        /\ pc = "Failed"
        /\ ~Issued("allowlist") /\ ~Issued("token") /\ ~Issued("update")

\* C12: in every step, each of the four external requests has been issued
\* at most once in the current run, and a run that is in Failed stays in
\* Failed and adds nothing to its log.
C12_NoRetry ==
    [][ /\ AtMostOnceEach'
        /\ (pc = "Failed" /\ run' = run) => (pc' = "Failed" /\ log' = log)
      ]_vars

C12_Witness ==
    /\ pc = "Failed"
    /\ IsError(allow_resp)
    /\ log = <<"git", "ip_echo", "allowlist">>

\* C13: a run that has issued the update request is in Done if the answer
\* has a 2xx status, and in Failed on every other outcome: another status,
\* 3xx included, or a transport error.
C13_DoneIffUpdate2xx ==
    Issued("update") =>
        /\ (pc = "Done" <=> Is2xx(update_resp))
        /\ (~Is2xx(update_resp) => pc = "Failed")

\* C14: a run that can take no further step is in one of NoOp, Done and
\* Failed (the final state that termination of the run must reach).
C14_StopsInNoOpDoneOrFailed ==
    (~ENABLED RunStep) => pc \in {"NoOp", "Done", "Failed"}

\* C15: after a successful comparison the change set is exactly the set of
\* paths git listed; for an empty listing it is the empty set.
C15_ChangeSetIsDiff ==
    (Detected /\ git_ok) =>
        /\ changed_files = Range(git_stdout)
        /\ (git_stdout = <<>> => changed_files = {})

\* C16: the ipAddress of the entry posted to the access list is the text of
\* the IP-echo response with leading and trailing whitespace removed.
C16_PostedAddressIsTrimmed ==
    Issued("allowlist") => allow_req.ipAddress = Trim(runner_ip)

\* C17: an issued update request carries as source the content read from
\* the watched file in this run and as bearer credential the token returned
\* by the token request of this run; the run makes one update request at
\* most, and no request is built before the update stage.
C17_UpdateCarriesSourceAndToken ==
    /\ Issued("update") =>
            /\ read_result = "ok"
            /\ function_source_code \in Sources
            /\ update_req.source = function_source_code
            /\ TokenGranted
            /\ update_req.token = token_resp.access_token
            /\ Count("update") = 1 /\ Count("token") = 1
    /\ ~Issued("update") => update_req = [source |-> None, token |-> None]

C17_Witness ==
    /\ pc = "Done"
    /\ run = 2
    /\ update_req = [source |-> "exports = 2", token |-> "tokB"]
    /\ token_resp.access_token = "tokB"

\* C18: no step, of any run and whatever its outcome, removes an address
\* from the remote access list, and the address posted with success by a run
\* is on the list in every later state of that run, also when it fails.
C18_AccessListOnlyGrows ==
    [][ /\ accessList \subseteq accessList'
        /\ Is2xx(allow_resp') => allow_req'.ipAddress \in accessList'
      ]_vars

C18_Witness ==
    /\ run = 2
    /\ pc = "Failed"
    /\ Is2xx(allow_resp)
    /\ Issued("token") /\ ~TokenGranted
    /\ allow_req.ipAddress \in accessList
    /\ prev.ip \in accessList
    /\ prev.ip # runner_ip

\* C19: a token answer with a success status that carries no usable token
\* (unparsable body, no access_token field, empty token) yields no bearer
\* token: the run is in Failed and neither reads the file nor issues the
\* update request.
C19_UnusableTokenIsAbsence ==
    ( /\ Is2xx(token_resp)
      /\ \/ ~token_resp.json
         \/ ~token_resp.has_token
         \/ token_resp.access_token = "" ) =>
        /\ bearer_token \in {None, ""}
        /\ pc = "Failed"
        /\ ~Entered("ReadingSource") /\ ~Entered("Updating")
        /\ ~Issued("read") /\ ~Issued("update")

C19_Witness ==
    /\ pc = "Failed"
    /\ token_resp.kind = "http" /\ token_resp.status = 200
    /\ token_resp.has_token
    /\ token_resp.access_token = ""
    /\ bearer_token = ""

\* C20: after a transport failure of the allowlist request the run has
\* stopped: it never enters Settling, does not sleep, issues no token and no
\* update request, and is not in Done.
C20_AllowlistTransportStopsRun ==
    allow_resp.kind = "transport" =>
        /\ pc = "Crashed"
        /\ ~Entered("Settling") /\ ~Entered("Authenticating")
        /\ slept = 0
        /\ ~Issued("sleep") /\ ~Issued("token") /\ ~Issued("update")
        /\ ~Entered("Done")
        /\ ~ENABLED RunStep

C20_Witness ==
    /\ pc = "Crashed"
    /\ allow_resp = TransportError
    /\ log = <<"git", "ip_echo", "allowlist">>

====
